---- MODULE Spec2Model ----
(***************************************************************************)
(* A model of the normalizing flow of week3/code/a3_nf_template.py: the    *)
(* checkerboard mask, the affine coupling layer, the Flow stack, the Model *)
(* (dequantize, logit_normalize, forward, sample) and the training loop.   *)
(*                                                                         *)
(* Numbers.  The program computes in float32.  The model computes in       *)
(* fixed point: a real r is the integer round(r * Scale).  Products and    *)
(* quotients round to the nearest unit, exp, tanh and log are computed by  *)
(* their series and rounded, so (like the floating-point program) the      *)
(* model's arithmetic is exact only up to a tolerance.  The normalisation  *)
(* z/256*(1-alpha)+alpha/2 cannot be held at that resolution (alpha is     *)
(* 1e-5); it is computed as an exact fraction.                             *)
(*                                                                         *)
(* Tensors.  A tensor of shape (batch, D) is modelled by one of its rows,  *)
(* a sequence of D numbers; every operation of the program is row-wise.    *)
(* A tensor is an object on the heap, so that rebinding a name             *)
(* (z = mask*z + ...) and updating an object in place (ldj += ...) differ. *)
(***************************************************************************)
EXTENDS Integers, Sequences, FiniteSets, TLC

\* ------------------------------------------------------------------------
\* Bounds of the model
\* ------------------------------------------------------------------------
Scale == 1000          \* fixed-point units per 1.0
GridSide == 2          \* the image is GridSide x GridSide (28 x 28 in get_mask)
NHidden == 2           \* n_hidden of a coupling sub-network (1024 by default)
MaxFlows == 2          \* n_flows ranges over 1..MaxFlows (4 by default)
NParamStates == 2      \* number of distinct parameter states an update can reach
SeriesTerms == 12      \* terms of the exp / atanh series
PixRes == 10           \* units per grey level of a tensor in pixel space
MaxEpochs == 1         \* ARGS.epochs (40 by default)

\* ------------------------------------------------------------------------
\* Constants of the program
\* ------------------------------------------------------------------------
Levels == 256          \* grey levels: z / 256. in logit_normalize
AlphaInv == 100000     \* 1 / alpha, alpha = 1e-5 in logit_normalize
MaxNorm == 5           \* ARGS.max_norm

D == GridSide * GridSide

\* ------------------------------------------------------------------------
\* Fixed-point arithmetic
\* ------------------------------------------------------------------------
Abs(a) == IF a < 0 THEN -a ELSE a

\* a / b rounded to the nearest integer (b > 0)
RoundDiv(a, b) == (2 * a + b) \div (2 * b)

\* a * b / c rounded, without forming a * b (c > 0)
MulDiv(a, b, c) == (a \div c) * b + RoundDiv((a % c) * b, c)

\* the product of two fixed-point numbers
MulFix(a, b) == MulDiv(a, b, Scale)

\* a tensor expression, evaluated once
Eval(f) == f \o <<>>

RECURSIVE SumSeq(_)
SumSeq(s) == IF s = <<>> THEN 0 ELSE Head(s) + SumSeq(Tail(s))

Fine == Scale * 10

\* sum of x^k / k! for k >= 1 added to acc, in units of 1/Fine
RECURSIVE ExpSeries(_, _, _, _)
ExpSeries(x, k, term, acc) ==
    IF k > SeriesTerms \/ term = 0 THEN acc
    ELSE LET next == RoundDiv(term * x, Scale * k)
         IN ExpSeries(x, k + 1, next, acc + next)

\* e^x in units of 1/Fine: the series for |x| <= 1, else e^x =
\* (e^(x div 2))^2 * e^(x mod 2)
RECURSIVE ExpFine(_)
ExpFine(x) ==
    IF Abs(x) <= Scale THEN ExpSeries(x, 1, Fine, Fine)
    ELSE LET e == ExpFine(x \div 2)
             sq == MulDiv(e, e, Fine)
         IN IF x % 2 = 0 THEN sq
            ELSE MulDiv(sq, ExpSeries(1, 1, Fine, Fine), Fine)

\* torch.exp on a fixed-point number (used on arguments <= 1.0)
Exp(x) == RoundDiv(ExpFine(x), 10)

\* torch.tanh: (1 - e^(-2|h|)) / (1 + e^(-2|h|)) with the sign of h
Tanh(h) ==
    IF Abs(h) >= 5 * Scale THEN (IF h < 0 THEN -Scale ELSE Scale)
    ELSE LET u == Exp(-2 * Abs(h))
             t == RoundDiv((Scale - u) * Scale, Scale + u)
         IN IF h < 0 THEN -t ELSE t

RECURSIVE FloorLog2(_)
FloorLog2(n) == IF n < 2 THEN 0 ELSE 1 + FloorLog2(n \div 2)

RECURSIVE Pow2(_)
Pow2(k) == IF k = 0 THEN 1 ELSE 2 * Pow2(k - 1)

LnUnit == Scale * 100

\* atanh(y) = y + y^3/3 + y^5/5 + ... for y in [0, 1/3], in units of 1/LnUnit
RECURSIVE AtanhSeries(_, _, _, _)
AtanhSeries(y2, k, term, acc) ==
    IF k > 2 * SeriesTerms \/ term = 0 THEN acc
    ELSE LET next == RoundDiv(term * y2, LnUnit)
         IN AtanhSeries(y2, k + 2, next, acc + RoundDiv(next, k))

\* ln((q + p) / (q - p)) = 2 * atanh(p / q), in units of 1/LnUnit
LnMantissa(p, q) ==
    LET y == RoundDiv(p * LnUnit, q)
        y2 == (y * y) \div LnUnit
    IN 2 * AtanhSeries(y2, 3, y, y)

Ln2 == LnMantissa(1, 3)

\* ln(n) in units of 1/LnUnit for an integer n >= 1
LnInt(n) ==
    LET k == FloorLog2(n)
        sh == IF k > 12 THEN k - 12 ELSE 0
        m == n \div Pow2(sh)
        b == Pow2(k - sh)
    IN k * Ln2 + LnMantissa(m - b, m + b)

\* ln(n / d) as a fixed-point number, for integers n, d >= 1
LogRat(n, d) == RoundDiv(LnInt(n) - LnInt(d), 100)

\* ------------------------------------------------------------------------
\* get_mask: the checkerboard, flattened row by row
\* ------------------------------------------------------------------------
get_mask ==
    Eval([k \in 1..D |->
            LET i == (k - 1) \div GridSide
                j == (k - 1) % GridSide
            IN IF (i + j) % 2 = 0 THEN 1 ELSE 0])

\* a slip: the paired layer is given the mask itself
ComplementSame(mask) == mask

\* 1 - mask
Complement(mask) == Eval([k \in 1..D |-> 1 - mask[k]])

\* ------------------------------------------------------------------------
\* The coupling sub-network: Linear, ReLU, Linear, ReLU, Linear
\* ------------------------------------------------------------------------
Linear(W, b, x) ==
    Eval([i \in 1..Len(b) |->
            b[i] + SumSeq(Eval([j \in 1..Len(x) |-> MulFix(W[i][j], x[j])]))])

ReLU(v) == Eval([i \in 1..Len(v) |-> IF v[i] > 0 THEN v[i] ELSE 0])

SubNet(p, x) ==
    Linear(p.W3, p.b3, ReLU(Linear(p.W2, p.b2, ReLU(Linear(p.W1, p.b1, x)))))

\* a weight in {-0.5, -0.25, 0, 0.25, 0.5} that depends on its position
Pattern(seed, i, j) ==
    (((seed * 7 + i * 3 + j * 2 + i * j) % 5) - 2) * (Scale \div 4)

Matrix(rows, cols, seed) ==
    [i \in 1..rows |-> [j \in 1..cols |-> Pattern(seed, i, j)]]

Vector(n, seed) == [i \in 1..n |-> Pattern(seed, i, 0)]

ZeroMatrix(rows, cols) == [i \in 1..rows |-> [j \in 1..cols |-> 0]]

ZeroVector(n) == [i \in 1..n |-> 0]

\* a slip: the weight of the last layer is zeroed, its bias is not
CouplingInitBiasKept(seed) ==
    [W1 |-> Matrix(NHidden, D, seed),           b1 |-> Vector(NHidden, seed + 1),
     W2 |-> Matrix(NHidden, NHidden, seed + 2), b2 |-> Vector(NHidden, seed + 3),
     W3 |-> ZeroMatrix(2 * D, NHidden),         b3 |-> Vector(2 * D, seed + 5)]

\* Coupling.__init__: the first two Linear layers get the framework's random
\* initial weights (drawn by seed), the last one is zeroed.
CouplingInit(seed) ==
    [W1 |-> Matrix(NHidden, D, seed),           b1 |-> Vector(NHidden, seed + 1),
     W2 |-> Matrix(NHidden, NHidden, seed + 2), b2 |-> Vector(NHidden, seed + 3),
     W3 |-> ZeroMatrix(2 * D, NHidden),         b3 |-> ZeroVector(2 * D)]

\* the parameters of one coupling layer after optimizer steps: every tensor
\* may have moved, the last layer is no longer zero
CouplingTrained(seed) ==
    [W1 |-> Matrix(NHidden, D, seed),           b1 |-> Vector(NHidden, seed + 1),
     W2 |-> Matrix(NHidden, NHidden, seed + 2), b2 |-> Vector(NHidden, seed + 3),
     W3 |-> Matrix(2 * D, NHidden, seed + 4),   b3 |-> Vector(2 * D, seed + 5)]

\* ------------------------------------------------------------------------
\* Coupling.forward
\* ------------------------------------------------------------------------
MaskedInput(mask, z) == Eval([k \in 1..D |-> mask[k] * z[k]])

\* out = self.nn(self.mask*z)
NetOut(p, mask, z) == SubNet(p, MaskedInput(mask, z))

\* log_scale = tanh(out[:, :c_in])
LogScale(out) == Eval([k \in 1..D |-> Tanh(out[k])])

\* translate = out[:, c_in:]
Translate(out) == Eval([k \in 1..D |-> out[D + k]])

\* a slip: the pass-through half is not kept apart, the affine map is applied
\* to every coordinate
CouplingZForwardUnmasked(mask, z, ls, tr) ==
    Eval([k \in 1..D |-> MulFix(z[k], Exp(ls[k])) + tr[k]])

\* z = self.mask * z + (1 - self.mask) * (z * torch.exp(log_scale) + translate)
CouplingZForward(mask, z, ls, tr) ==
    Eval([k \in 1..D |->
          mask[k] * z[k] + (1 - mask[k]) * (MulFix(z[k], Exp(ls[k])) + tr[k])])

\* a slip: the inverse scales by exp(log_scale) again
CouplingZReverseSameSign(mask, z, ls, tr) ==
    Eval([k \in 1..D |->
          mask[k] * z[k] + (1 - mask[k]) * MulFix(z[k] - tr[k], Exp(ls[k]))])

\* z = self.mask * z + (1 - self.mask) * ((z - translate) * torch.exp(-log_scale))
CouplingZReverse(mask, z, ls, tr) ==
    Eval([k \in 1..D |->
          mask[k] * z[k] + (1 - mask[k]) * MulFix(z[k] - tr[k], Exp(-ls[k]))])

\* ((1 - self.mask) * log_scale).sum(dim=-1)
CouplingLdj(mask, ls) == SumSeq(Eval([k \in 1..D |-> (1 - mask[k]) * ls[k]]))

\* ------------------------------------------------------------------------
\* Objects
\* ------------------------------------------------------------------------
Tensor(v) == [kind |-> "tensor", val |-> v, nan |-> FALSE]
Number(v) == [kind |-> "number", val |-> v, nan |-> FALSE]

\* a new tensor object; its address is Len(h) + 1
Alloc(h, v) == Append(h, Tensor(v))

\* a slip (or a rewrite): `name = name + c`, always a new object
InplaceAddRebind(h, ref, c) ==
    [heap |-> Append(h, [kind |-> "tensor", val |-> h[ref].val + c,
                         nan |-> h[ref].nan]),
     ref |-> Len(h) + 1]

\* `name += c`: a tensor is updated in place and the name keeps its object; a
\* Python number has no in-place add, the name is rebound to the new tensor.
\* The result is the heap and the object the name is bound to.
InplaceAdd(h, ref, c) ==
    IF h[ref].kind = "tensor"
    THEN [heap |-> [h EXCEPT ![ref].val = @ + c], ref |-> ref]
    ELSE [heap |-> Append(h, [kind |-> "tensor", val |-> h[ref].val + c,
                              nan |-> h[ref].nan]),
          ref |-> Len(h) + 1]

\* `name += c` where c is nan or infinite
InplaceAddNan(h, ref) ==
    IF h[ref].kind = "tensor"
    THEN [heap |-> [h EXCEPT ![ref].nan = TRUE], ref |-> ref]
    ELSE [heap |-> Append(h, [kind |-> "tensor", val |-> 0, nan |-> TRUE]),
          ref |-> Len(h) + 1]

\* a slip: the reverse direction takes the layer's log-determinant off ldj
CouplingForwardReverseLdj(h, z, ldj, p, mask, reverse) ==
    LET out == NetOut(p, mask, h[z].val)
        ls == LogScale(out)
        tr == Translate(out)
        zn == IF reverse THEN CouplingZReverse(mask, h[z].val, ls, tr)
              ELSE CouplingZForward(mask, h[z].val, ls, tr)
        c == IF reverse THEN -CouplingLdj(mask, ls) ELSE CouplingLdj(mask, ls)
        r == InplaceAdd(Alloc(h, zn), ldj, c)
    IN [heap |-> r.heap, z |-> Len(h) + 1, ldj |-> r.ref]

\* Coupling.forward(z, ldj, reverse) on the objects z and ldj: the heap after
\* the call and the objects returned
CouplingForward(h, z, ldj, p, mask, reverse) ==
    LET out == NetOut(p, mask, h[z].val)
        ls == LogScale(out)
        tr == Translate(out)
    IN IF ~reverse
       THEN LET h1 == Alloc(h, CouplingZForward(mask, h[z].val, ls, tr))
                r == InplaceAdd(h1, ldj, CouplingLdj(mask, ls))
            IN [heap |-> r.heap, z |-> Len(h) + 1, ldj |-> r.ref]
       ELSE [heap |-> Alloc(h, CouplingZReverse(mask, h[z].val, ls, tr)),
             z |-> Len(h) + 1, ldj |-> ldj]

\* ------------------------------------------------------------------------
\* Flow
\* ------------------------------------------------------------------------
\* Flow.__init__: the masks of the layers appended by the loop
RECURSIVE FlowMasks(_)
FlowMasks(n) ==
    IF n = 0 THEN <<>>
    ELSE FlowMasks(n - 1) \o <<get_mask, Complement(get_mask)>>

\* Flow.__init__: the parameters of the layers as constructed
FlowInitParams(n, seed) == [l \in 1..(2 * n) |-> CouplingInit(seed + 10 * l)]

\* the parameters of the layers in the s-th state training can reach
FlowTrainedParams(n, s) == [l \in 1..(2 * n) |-> CouplingTrained(s * 3 + l)]

\* Flow.forward: the layer the loop starts at (self.layers / reversed(...))
FirstLayer(n, reverse) == IF reverse THEN n ELSE 1

\* a slip: the reverse pass walks the list forward
NextLayerForward(l, reverse) == l + 1

\* Flow.forward: the layer the loop visits after layer l
NextLayer(l, reverse) == IF reverse THEN l - 1 ELSE l + 1

\* ------------------------------------------------------------------------
\* Prior
\* ------------------------------------------------------------------------
\* 0.5 * np.log(2*np.pi), with 2*pi = 710/113
HalfLog2Pi == RoundDiv(LnInt(710) - LnInt(113), 200)

\* log_prior
log_prior(x) ==
    SumSeq(Eval([k \in 1..Len(x) |->
                    -HalfLog2Pi - RoundDiv(MulFix(x[k], x[k]), 2)]))

\* ------------------------------------------------------------------------
\* Model.logit_normalize
\* ------------------------------------------------------------------------
\* z/256*(1-alpha) + alpha*0.5 for a z in pixel space is NormNum(z) / NormDen
NormNum(zk) == 2 * zk * (AlphaInv - 1) + Levels * PixRes
NormDen == 2 * Levels * PixRes * AlphaInv

\* torch.log(n / d); the value is only used when the argument is positive
Log(n, d) == IF n > 0 THEN LogRat(n, d) ELSE 0

\* np.log(256) * np.prod(z.size()[1:])
LogLevelsD == LogRat(Levels, 1) * D

\* the arguments torch.log receives in the forward branch
ForwardLogArgs(z) ==
    {NormNum(z[k]) : k \in 1..D} \cup {NormDen - NormNum(z[k]) : k \in 1..D}

\* sum(-log(z) - log(1-z)) of the forward branch
ForwardJacobian(z) ==
    SumSeq(Eval([k \in 1..D |->
                    -Log(NormNum(z[k]), NormDen)
                    - Log(NormDen - NormNum(z[k]), NormDen)]))

\* log(z) - log(1-z) of the forward branch
Logit(z) ==
    Eval([k \in 1..D |->
            Log(NormNum(z[k]), NormDen) - Log(NormDen - NormNum(z[k]), NormDen)])

\* a slip: the division by 256 is left out of logdet
LogitNormalizeForwardNoScaling(h, z, logdet) ==
    LET zin == h[z].val
        ok == \A a \in ForwardLogArgs(zin) : a > 0
        r2 == IF ok THEN InplaceAdd(h, logdet, ForwardJacobian(zin))
              ELSE InplaceAddNan(h, logdet)
        h3 == Append(r2.heap, [kind |-> "tensor", val |-> Logit(zin),
                               nan |-> ~ok])
    IN [heap |-> h3, z |-> Len(h3), ldj |-> r2.ref, ok |-> ok]

\* logit_normalize(z, logdet): the heap after the call, the objects returned
\* and whether every argument of torch.log was positive
LogitNormalizeForward(h, z, logdet) ==
    LET zin == h[z].val
        ok == \A a \in ForwardLogArgs(zin) : a > 0
        r1 == InplaceAdd(h, logdet, -LogLevelsD)
        r2 == IF ok THEN InplaceAdd(r1.heap, r1.ref, ForwardJacobian(zin))
              ELSE InplaceAddNan(r1.heap, r1.ref)
        h3 == Append(r2.heap, [kind |-> "tensor", val |-> Logit(zin),
                               nan |-> ~ok])
    IN [heap |-> h3, z |-> Len(h3), ldj |-> r2.ref, ok |-> ok]

\* the arguments torch.log receives in the reverse branch
ReverseLogArgs(z) == {z[k] : k \in 1..D} \cup {Scale - z[k] : k \in 1..D}

\* sum(log(z) + log(1-z)) of the reverse branch
ReverseJacobian(z) ==
    SumSeq(Eval([k \in 1..D |-> Log(z[k], Scale) + Log(Scale - z[k], Scale)]))

\* torch.sigmoid
Sigmoid(x) ==
    IF x >= 0 THEN RoundDiv(Scale * Scale, Scale + Exp(-x))
    ELSE RoundDiv(Exp(x) * Scale, Scale + Exp(x))

\* logit_normalize(z, logdet, reverse=True)
LogitNormalizeReverse(h, z, logdet) ==
    LET zin == h[z].val
        ok == \A a \in ReverseLogArgs(zin) : a > 0
        r1 == IF ok THEN InplaceAdd(h, logdet, ReverseJacobian(zin))
              ELSE InplaceAddNan(h, logdet)
        h2 == Alloc(r1.heap, Eval([k \in 1..D |-> Sigmoid(zin[k]) * Levels]))
        r3 == InplaceAdd(h2, r1.ref, LogLevelsD)
    IN [heap |-> r3.heap, z |-> Len(h2), ldj |-> r3.ref, ok |-> ok]

\* ------------------------------------------------------------------------
\* Training
\* ------------------------------------------------------------------------
Ln2Fix == RoundDiv(Ln2, 100)

\* avg_bpd / (len(data) * np.log(2) * 784)
Bpd(avg, nBatches) == MulDiv(avg, Scale, nBatches * Ln2Fix * D)

\* clip_grad_norm_: a gradient of norm g is scaled to norm max_norm when
\* g exceeds it
ClipGradNorm(g) == IF g > MaxNorm * Scale THEN MaxNorm * Scale ELSE g

\* ------------------------------------------------------------------------
\* State
\* ------------------------------------------------------------------------
VARIABLES
    nFlows,    \* n_flows of the Flow
    masks,     \* masks[l]: the mask buffer of layer l
    params,    \* params[l]: the sub-network parameters of layer l
    trained,   \* whether an optimizer step has been taken since construction
    heap,      \* the tensor objects of the running call
    pc,        \* where the program is
    mode,      \* whose call of Flow.forward is running
    reverse,   \* the reverse argument of the running Flow.forward
    argZ,      \* the object the caller passed to Flow.forward as z
    argLdj,    \* the object the caller passed to Flow.forward as logdet
    locZ,      \* Flow.forward's local z
    locLdj,    \* Flow.forward's local logdet
    idx,       \* the layer the loop of Flow.forward is at
    applied,   \* the coupling calls made by the running Flow.forward
    snapZ,     \* value of the caller's z object when Flow.forward was called
    snapLdj,   \* value of the caller's logdet object at that time
    origX,     \* the x of the forward call whose result is being inverted
    data,      \* (traindata, valdata), each a sequence of batches
    epoch,     \* epochs completed by main
    training,  \* model.training
    batch,     \* position of the loop of epoch_iter
    avgBpd,    \* avg_bpd of epoch_iter
    grad,      \* norm of the gradient held by the parameters
    loss,      \* loss of the current batch
    mZ,        \* z of Model.forward / Model.sample
    mLdj,      \* ldj of Model.forward / Model.sample
    stages,    \* the stages the running Model.forward has been through
    logpx,     \* the value Model.forward returned
    logOk,     \* whether every torch.log of the last logit_normalize got a
               \* positive argument
    opLog,     \* the steps taken by the running run_epoch
    bpds       \* (train_bpd, val_bpd) of the running run_epoch

frame == <<reverse, argZ, argLdj, locZ, locLdj, idx, applied, snapZ, snapLdj>>
flowVars == <<heap, pc, mode, frame, origX>>
netVars == <<nFlows, masks, params, trained>>
loopVars == <<data, epoch, training, batch, avgBpd, grad, loss, opLog, bpds>>
modelVars == <<mZ, mLdj, stages, logpx, logOk>>

vars == <<netVars, flowVars, loopVars, modelVars>>

NLayers == 2 * nFlows

None == <<>>

\* inputs of Flow.forward: vectors whose coordinates all differ, spanned by
\* two seeds
XSeeds == {-((3 * Scale) \div 2), (6 * Scale) \div 5, 2 * Scale}

InputVector(a, b) ==
    [k \in 1..D |->
        IF k % 2 = 1 THEN a + ((k - 1) \div 2) * (Scale \div 4)
        ELSE b - ((k \div 2) - 1) * (Scale \div 4)]

Inputs == {InputVector(a, b) : a \in XSeeds, b \in XSeeds}

LdjValues == {0, Scale \div 2}

\* images: grey levels 0..255 per pixel, in pixel space
Image(a, b) == [k \in 1..D |-> (IF k % 2 = 1 THEN a ELSE b) * PixRes]

Datasets ==
    {<< <<Image(0, Levels - 1), Image(128, 3)>>, <<Image(Levels - 1, 77)>> >>,
     << <<Image(Levels - 1, Levels - 1)>>, <<Image(0, 0), Image(200, 1)>> >>}

\* torch.rand_like: uniform noise in [0, 1), in pixel space
Noises ==
    {[k \in 1..D |-> 0],
     [k \in 1..D |-> IF k % 2 = 1 THEN PixRes - 1 ELSE PixRes \div 2]}

\* sample_prior: standard normal draws
PriorDraws == {InputVector(a, b) : a \in {-(Scale \div 2), Scale \div 4},
                                   b \in {(3 * Scale) \div 4}}

\* norms of the gradient loss.backward() can leave
GradNorms == {Scale \div 2, 12 * Scale}

\* the state after Model(shape) is constructed, the random initial weights
\* drawn by one of the seeds
Constructed(seeds) ==
    /\ nFlows \in 1..MaxFlows
    /\ masks = FlowMasks(nFlows)
    /\ \E seed \in seeds : params = FlowInitParams(nFlows, seed)
    /\ trained = FALSE
    /\ heap = <<>>
    /\ pc = "idle"
    /\ mode = "none"
    /\ reverse = FALSE
    /\ argZ = 0 /\ argLdj = 0 /\ locZ = 0 /\ locLdj = 0
    /\ idx = 0
    /\ applied = <<>>
    /\ snapZ = None /\ snapLdj = 0
    /\ origX = None
    /\ epoch = 0
    /\ training = TRUE
    /\ batch = 0
    /\ avgBpd = 0
    /\ grad = 0
    /\ loss = 0
    /\ mZ = 0 /\ mLdj = 0
    /\ stages = <<>>
    /\ logpx = 0
    /\ logOk = TRUE
    /\ opLog = <<>>
    /\ bpds = <<>>

Init == Constructed({1, 2}) /\ data = None

\* ------------------------------------------------------------------------
\* Flow.forward
\* ------------------------------------------------------------------------
\* the entry of Flow.forward(z, logdet, reverse) on the heap h
FlowEnter(h, z, logdet, rev) ==
    /\ heap' = h
    /\ reverse' = rev
    /\ argZ' = z /\ argLdj' = logdet
    /\ locZ' = z /\ locLdj' = logdet
    /\ snapZ' = h[z].val /\ snapLdj' = h[logdet].val
    /\ idx' = FirstLayer(NLayers, rev)
    /\ applied' = <<>>
    /\ pc' = "loop"

\* one iteration of the loop: z, logdet = layer(z, logdet[, reverse=True])
FlowIter ==
    /\ pc = "loop"
    /\ idx \in 1..NLayers
    /\ LET r == CouplingForward(heap, locZ, locLdj, params[idx], masks[idx],
                                reverse)
       IN /\ heap' = r.heap
          /\ locZ' = r.z
          /\ locLdj' = r.ldj
          /\ applied' = Append(applied,
                               [layer |-> idx, reverse |-> reverse, z |-> locZ])
          /\ idx' = NextLayer(idx, reverse)
    /\ UNCHANGED <<netVars, loopVars, modelVars, pc, mode, reverse, argZ,
                   argLdj, snapZ, snapLdj, origX>>

\* the loop is exhausted: return z, logdet
FlowReturn ==
    /\ pc = "loop"
    /\ idx \notin 1..NLayers
    /\ pc' = "ret"
    /\ UNCHANGED <<netVars, loopVars, modelVars, heap, mode, reverse, argZ,
                   argLdj, locZ, locLdj, idx, applied, snapZ, snapLdj, origX>>

\* ------------------------------------------------------------------------
\* Callers of Flow.forward outside the Model
\* ------------------------------------------------------------------------
\* the parameters after some optimizer steps
Update ==
    /\ pc = "idle"
    /\ \E s \in 1..NParamStates : params' = FlowTrainedParams(nFlows, s)
    /\ trained' = TRUE
    /\ UNCHANGED <<nFlows, masks, flowVars, loopVars, modelVars>>

\* Flow.forward(x, ldj) or Flow.forward(x, ldj, reverse=True); ldj is a
\* tensor or a Python number
CallFlow ==
    /\ pc = "idle"
    /\ \E x \in Inputs, l \in LdjValues, rev \in BOOLEAN :
          /\ \E ldj \in {Tensor(l), Number(l)} :
                FlowEnter(<<Tensor(x), ldj>>, 1, 2, rev)
          /\ mode' = IF rev THEN "rev" ELSE "fwd"
    /\ origX' = None
    /\ UNCHANGED <<netVars, loopVars, modelVars>>

\* the caller of Flow.forward(x, 0) feeds the returned z, with a fresh zero
\* logdet, to Flow.forward(..., reverse=True)
CallInverse ==
    /\ pc = "ret"
    /\ mode = "fwd"
    /\ snapLdj = 0
    /\ \E ldj \in {Tensor(0), Number(0)} :
          FlowEnter(<<Tensor(heap[locZ].val), ldj>>, 1, 2, TRUE)
    /\ mode' = "inv"
    /\ origX' = snapZ
    /\ UNCHANGED <<netVars, loopVars, modelVars>>

\* the caller drops the results
Done ==
    /\ pc = "ret"
    /\ mode \in {"fwd", "rev", "inv"}
    /\ pc' = "idle"
    /\ mode' = "none"
    /\ heap' = <<>>
    /\ reverse' = FALSE
    /\ argZ' = 0 /\ argLdj' = 0 /\ locZ' = 0 /\ locLdj' = 0
    /\ idx' = 0
    /\ applied' = <<>>
    /\ snapZ' = None /\ snapLdj' = 0
    /\ origX' = None
    /\ UNCHANGED <<netVars, loopVars, modelVars>>

Next ==
    \/ Update
    \/ CallFlow
    \/ FlowIter
    \/ FlowReturn
    \/ CallInverse
    \/ Done

Spec == Init /\ [][Next]_vars

\* ------------------------------------------------------------------------
\* Model.forward
\* ------------------------------------------------------------------------
\* model(imgs): z = input, ldj = torch.zeros(...)
ModelForward ==
    /\ pc = "model"
    /\ heap' = <<Tensor(data[IF training THEN 1 ELSE 2][batch]), Tensor(0)>>
    /\ mZ' = 1
    /\ mLdj' = 2
    /\ stages' = <<>>
    /\ pc' = "dequantize"
    /\ UNCHANGED <<netVars, mode, frame, origX, loopVars, logpx, logOk>>

\* z = self.dequantize(z): z + torch.rand_like(z), a new tensor
Dequantize ==
    /\ pc = "dequantize"
    /\ \E u \in Noises :
          heap' = Alloc(heap, Eval([k \in 1..D |-> heap[mZ].val[k] + u[k]]))
    /\ mZ' = Len(heap) + 1
    /\ stages' = Append(stages, "dequantize")
    /\ pc' = "normalize"
    /\ UNCHANGED <<netVars, mode, frame, origX, loopVars, mLdj, logpx, logOk>>

\* z, ldj = self.logit_normalize(z, ldj)
Normalize ==
    /\ pc = "normalize"
    /\ LET r == LogitNormalizeForward(heap, mZ, mLdj)
       IN /\ heap' = r.heap
          /\ mZ' = r.z
          /\ mLdj' = r.ldj
          /\ logOk' = r.ok
    /\ stages' = Append(stages, "logit_normalize")
    /\ pc' = "flow"
    /\ UNCHANGED <<netVars, mode, frame, origX, loopVars, logpx>>

\* z, ldj = self.flow(z, ldj): the call
ModelFlow ==
    /\ pc = "flow"
    /\ FlowEnter(heap, mZ, mLdj, FALSE)
    /\ mode' = "model"
    /\ stages' = Append(stages, "flow")
    /\ UNCHANGED <<netVars, origX, loopVars, mZ, mLdj, logpx, logOk>>

\* the flow has returned: log_pz = log_prior(z), log_px = log_pz + ldj
LogPx ==
    /\ pc = "ret"
    /\ mode = "model"
    /\ mZ' = locZ
    /\ mLdj' = locLdj
    /\ logpx' = log_prior(heap[locZ].val) + heap[locLdj].val
    /\ stages' = Append(stages, "log_prior")
    /\ pc' = "loss"
    /\ UNCHANGED <<netVars, heap, mode, frame, origX, loopVars, logOk>>

\* ------------------------------------------------------------------------
\* main, run_epoch, epoch_iter
\* ------------------------------------------------------------------------
InitTrain == Constructed({1}) /\ data \in Datasets

\* the data epoch_iter iterates
CurData == IF training THEN data[1] ELSE data[2]

\* main: the next epoch.  run_epoch: model.train(), and epoch_iter begins
\* with avg_bpd = 0.
RunEpoch ==
    /\ pc = "idle"
    /\ epoch < MaxEpochs
    /\ training' = TRUE
    /\ avgBpd' = 0
    /\ batch' = 1
    /\ opLog' = <<>>
    /\ bpds' = <<>>
    /\ pc' = "batch"
    /\ UNCHANGED <<netVars, heap, mode, frame, origX, data, epoch, grad, loss,
                   modelVars>>

\* training mode, the next batch: optimizer.zero_grad()
TrainBatch ==
    /\ pc = "batch"
    /\ training
    /\ batch <= Len(CurData)
    /\ grad' = 0
    /\ opLog' = Append(opLog, "zero_grad")
    /\ pc' = "model"
    /\ UNCHANGED <<netVars, heap, mode, frame, origX, data, epoch, training,
                   batch, avgBpd, loss, bpds, modelVars>>

\* evaluation mode, the next batch
EvalBatch ==
    /\ pc = "batch"
    /\ ~training
    /\ batch <= Len(CurData)
    /\ pc' = "model"
    /\ UNCHANGED <<netVars, heap, mode, frame, origX, loopVars, modelVars>>

\* a slip: the evaluation branch backpropagates and steps like the training one
LossThenBackward ==
    /\ pc = "loss"
    /\ loss' = -logpx
    /\ opLog' = Append(opLog, "loss")
    /\ pc' = "backward"
    /\ UNCHANGED <<netVars, heap, mode, frame, origX, data, epoch, training,
                   batch, avgBpd, grad, bpds, modelVars>>

\* loss = -logp.mean(dim=0), after logp = model(imgs)
Loss ==
    /\ pc = "loss"
    /\ loss' = -logpx
    /\ opLog' = Append(opLog, "loss")
    /\ pc' = IF training THEN "backward" ELSE "accumulate"
    /\ UNCHANGED <<netVars, heap, mode, frame, origX, data, epoch, training,
                   batch, avgBpd, grad, bpds, modelVars>>

\* loss.backward(): the gradient is added to the (zeroed) gradient
Backward ==
    /\ pc = "backward"
    /\ \E g \in GradNorms : grad' = grad + g
    /\ opLog' = Append(opLog, "backward")
    /\ pc' = "clip"
    /\ UNCHANGED <<netVars, heap, mode, frame, origX, data, epoch, training,
                   batch, avgBpd, loss, bpds, modelVars>>

\* torch.nn.utils.clip_grad_norm_(model.parameters(), max_norm)
Clip ==
    /\ pc = "clip"
    /\ grad' = ClipGradNorm(grad)
    /\ opLog' = Append(opLog, "clip")
    /\ pc' = "step"
    /\ UNCHANGED <<netVars, heap, mode, frame, origX, data, epoch, training,
                   batch, avgBpd, loss, bpds, modelVars>>

\* optimizer.step(): the parameters move
Step ==
    /\ pc = "step"
    /\ \E s \in 1..NParamStates : params' = FlowTrainedParams(nFlows, s)
    /\ trained' = TRUE
    /\ opLog' = Append(opLog, "step")
    /\ pc' = "accumulate"
    /\ UNCHANGED <<nFlows, masks, heap, mode, frame, origX, data, epoch,
                   training, batch, avgBpd, grad, loss, bpds, modelVars>>

\* avg_bpd += loss.item(), and on to the next batch
Accumulate ==
    /\ pc = "accumulate"
    /\ avgBpd' = avgBpd + loss
    /\ opLog' = Append(opLog, "accumulate")
    /\ batch' = batch + 1
    /\ pc' = "batch"
    /\ UNCHANGED <<netVars, heap, mode, frame, origX, data, epoch, training,
                   grad, loss, bpds, modelVars>>

\* the training epoch_iter returns; run_epoch: model.eval(), and epoch_iter
\* begins again
TrainReturn ==
    /\ pc = "batch"
    /\ training
    /\ batch > Len(CurData)
    /\ bpds' = <<Bpd(avgBpd, Len(CurData))>>
    /\ training' = FALSE
    /\ avgBpd' = 0
    /\ batch' = 1
    /\ opLog' = Append(opLog, "eval")
    /\ UNCHANGED <<netVars, heap, pc, mode, frame, origX, data, epoch, grad,
                   loss, modelVars>>

\* the evaluation epoch_iter returns, and run_epoch with it
EvalReturn ==
    /\ pc = "batch"
    /\ ~training
    /\ batch > Len(CurData)
    /\ bpds' = Append(bpds, Bpd(avgBpd, Len(CurData)))
    /\ pc' = "epoch_done"
    /\ UNCHANGED <<netVars, heap, mode, frame, origX, data, epoch, training,
                   batch, avgBpd, grad, loss, opLog, modelVars>>

\* ------------------------------------------------------------------------
\* Model.sample
\* ------------------------------------------------------------------------
\* main: model.sample(25).  z = sample_prior(...), ldj = torch.zeros(...),
\* z, ldj = self.flow(z, ldj, reverse=True): the call
Sample ==
    /\ pc = "epoch_done"
    /\ \E z \in PriorDraws : FlowEnter(<<Tensor(z), Tensor(0)>>, 1, 2, TRUE)
    /\ mode' = "sample"
    /\ mZ' = 1
    /\ mLdj' = 2
    /\ stages' = <<>>
    /\ UNCHANGED <<netVars, origX, loopVars, logpx, logOk>>

\* the flow has returned: z, _ = self.logit_normalize(z, ldj, reverse=True)
Denormalize ==
    /\ pc = "ret"
    /\ mode = "sample"
    /\ LET r == LogitNormalizeReverse(heap, locZ, locLdj)
       IN /\ heap' = r.heap
          /\ mZ' = r.z
          /\ mLdj' = r.ldj
          /\ logOk' = r.ok
    /\ pc' = "sampled"
    /\ UNCHANGED <<netVars, mode, frame, origX, loopVars, stages, logpx>>

\* main: the samples are saved, the epoch is over; the locals of run_epoch,
\* epoch_iter and the Model's methods are gone
SaveImage ==
    /\ pc = "sampled"
    /\ epoch' = epoch + 1
    /\ pc' = "idle"
    /\ mode' = "none"
    /\ heap' = <<>>
    /\ reverse' = FALSE
    /\ argZ' = 0 /\ argLdj' = 0 /\ locZ' = 0 /\ locLdj' = 0
    /\ idx' = 0
    /\ applied' = <<>>
    /\ snapZ' = None /\ snapLdj' = 0
    /\ mZ' = 0 /\ mLdj' = 0
    /\ batch' = 0
    /\ avgBpd' = 0
    /\ loss' = 0
    /\ logpx' = 0
    /\ opLog' = <<>>
    /\ bpds' = <<>>
    /\ stages' = <<>>
    /\ UNCHANGED <<netVars, origX, data, training, grad, logOk>>

NextTrain ==
    \/ RunEpoch
    \/ TrainBatch
    \/ EvalBatch
    \/ ModelForward
    \/ Dequantize
    \/ Normalize
    \/ ModelFlow
    \/ FlowIter
    \/ FlowReturn
    \/ LogPx
    \/ Loss
    \/ Backward
    \/ Clip
    \/ Step
    \/ Accumulate
    \/ TrainReturn
    \/ EvalReturn
    \/ Sample
    \/ Denormalize
    \/ SaveImage

SpecTrain == InitTrain /\ [][NextTrain]_vars

\* ------------------------------------------------------------------------
\* Properties
\* ------------------------------------------------------------------------
\* Flow.forward has returned
Returned == pc = "ret"

\* the z and the logdet Flow.forward returns
RetZ == heap[locZ].val
RetLdj == heap[locLdj].val

\* the layers called so far, in order
AppliedLayers == [i \in 1..Len(applied) |-> applied[i].layer]

\* what the rounding of the arithmetic may lose on the way there and back:
\* 0.05, where the inputs are of magnitude 1 and the arithmetic resolves 0.001
RoundTripTol == Scale \div 20

\* C1: a forward pass on (x, 0) followed by a reverse pass on the resulting z
\* gives x back (up to the rounding of the arithmetic), whatever the
\* parameters and n_flows.
RoundTrip ==
    (Returned /\ mode = "inv") =>
        \A k \in 1..D : Abs(RetZ[k] - origX[k]) <= RoundTripTol

\* the inverse of a forward pass that moved z, with trained parameters and the
\* deepest stack, has returned
RoundTripWitness ==
    /\ Returned /\ mode = "inv"
    /\ trained
    /\ nFlows = MaxFlows
    /\ \A k \in 1..D : Abs(snapZ[k] - origX[k]) > RoundTripTol

\* C2: a forward pass calls every layer once in construction order, a reverse
\* pass calls every layer once in the opposite order, each with reverse=True.
LayerOrder ==
    Returned =>
        /\ Len(applied) = NLayers
        /\ \A i \in 1..NLayers :
              /\ applied[i].layer = (IF reverse THEN NLayers + 1 - i ELSE i)
              /\ applied[i].reverse = reverse

\* a reverse pass over four layers has returned
LayerOrderWitness ==
    /\ Returned /\ reverse
    /\ NLayers >= 4
    /\ AppliedLayers[1] = NLayers

ZeroD == [k \in 1..D |-> 0]

\* C3: as constructed, every coupling layer has log_scale = 0 and
\* translate = 0 for every input, and Flow.forward(x, ldj) returns (x, ldj).
IdentityAtInit ==
    ~trained =>
        /\ pc = "idle" =>
              \A l \in 1..NLayers, x \in Inputs :
                 LET out == NetOut(params[l], masks[l], x)
                 IN LogScale(out) = ZeroD /\ Translate(out) = ZeroD
        /\ (Returned /\ ~reverse) => (RetZ = snapZ /\ RetLdj = snapLdj)

\* a forward pass on (x, 0) through the untrained flow has returned
IdentityAtInitWitness ==
    /\ ~trained
    /\ Returned /\ mode = "fwd"
    /\ snapLdj = 0
    /\ Len(applied) = NLayers

\* the last coupling call: its layer, its input and its output
LastCall == applied[Len(applied)]

\* C4: a coupling call, forward or reverse, leaves the coordinates whose mask
\* entry is 1 as they were.
MaskedPassThrough ==
    (pc \in {"loop", "ret"} /\ applied # <<>>) =>
        \A k \in 1..D :
           masks[LastCall.layer][k] = 1 => RetZ[k] = heap[LastCall.z].val[k]

\* a reverse coupling call with trained parameters changed every coordinate
\* whose mask entry is 0, and no other
MaskedPassThroughWitness ==
    /\ pc = "loop" /\ applied # <<>>
    /\ trained /\ reverse
    /\ \A k \in 1..D :
          (masks[LastCall.layer][k] = 0) <=> (RetZ[k] # heap[LastCall.z].val[k])

\* C5: consecutive layers of the stack have complementary masks: every
\* coordinate is transformed (mask entry 0) by exactly one layer of a pair.
MaskAlternation ==
    /\ Len(masks) = NLayers
    /\ \A l \in 1..NLayers : \A k \in 1..D : masks[l][k] \in {0, 1}
    /\ \A l \in 1..(NLayers - 1) :
          \A k \in 1..D : masks[l][k] + masks[l + 1][k] = 1

\* a stack of two blocks whose first coordinate is passed through by the
\* first layer and transformed by the second
MaskAlternationWitness ==
    /\ NLayers >= 4
    /\ masks[1][1] = 1 /\ masks[2][1] = 0
    /\ masks[3][2] = 0 /\ masks[4][2] = 1

\* C6: in a reverse pass the logdet object is the caller's and keeps the value
\* it came with, after every layer.
ReverseKeepsLdj ==
    (pc \in {"loop", "ret"} /\ reverse) =>
        (locLdj = argLdj /\ RetLdj = snapLdj)

\* a reverse pass over the trained flow, given a nonzero logdet, has changed z
\* and returned
ReverseKeepsLdjWitness ==
    /\ Returned /\ reverse
    /\ trained
    /\ snapLdj # 0
    /\ RetZ # snapZ

\* the dequantized input of the running Model.forward: the third object
\* (after the input and ldj)
Dequantized == heap[3].val

\* sum((1-mask)*log_scale) of each coupling call made, added up
RECURSIVE CouplingContributions(_)
CouplingContributions(calls) ==
    IF calls = <<>> THEN 0
    ELSE LET c == Head(calls)
         IN CouplingLdj(masks[c.layer],
                        LogScale(NetOut(params[c.layer], masks[c.layer],
                                        heap[c.z].val)))
            + CouplingContributions(Tail(calls))

\* C7: in Model.forward ldj starts at zero, dequantize adds nothing to it, the
\* stages run in order, and log_px is log_prior(z) plus the contribution of
\* logit_normalize plus that of every coupling layer, each counted once.
LdjBookkeeping ==
    /\ pc \in {"dequantize", "normalize"} => heap[mLdj].val = 0
    /\ pc = "loss" =>
          /\ stages = <<"dequantize", "logit_normalize", "flow", "log_prior">>
          /\ AppliedLayers = [i \in 1..NLayers |-> i]
          /\ logpx = log_prior(heap[mZ].val)
                     + (ForwardJacobian(Dequantized) - LogLevelsD)
                     + CouplingContributions(applied)

\* Model.forward has returned from a trained flow whose layers all
\* contributed
LdjBookkeepingWitness ==
    /\ pc = "loss"
    /\ trained
    /\ CouplingContributions(applied) # 0
    /\ Dequantized # heap[1].val

\* C8: every torch.log of logit_normalize receives a positive argument, in
\* Model.forward and in Model.sample.
LogArgumentsPositive == logOk

\* the object the caller passed as logdet is a tensor
LdjIsTensor == heap[argLdj].kind = "tensor"

\* C9 as stated: a call of Flow.forward changes neither the z object nor the
\* logdet object the caller passed.
NoAliasing ==
    Returned => (heap[argZ].val = snapZ /\ heap[argLdj].val = snapLdj)

\* C9 amended: the caller's z object is never changed; the caller's logdet
\* is unchanged by a reverse pass and when it is a Python number; a logdet
\* tensor is updated in place by a forward pass: the logdet returned is the
\* caller's own object.
AliasingOfLdj ==
    Returned =>
        /\ heap[argZ].val = snapZ
        /\ (reverse \/ ~LdjIsTensor) => heap[argLdj].val = snapLdj
        /\ (~reverse /\ LdjIsTensor) => locLdj = argLdj

\* a forward pass has returned and the caller's logdet tensor no longer holds
\* the value it was passed with
AliasingOfLdjWitness ==
    /\ Returned /\ ~reverse
    /\ LdjIsTensor
    /\ heap[argLdj].val # snapLdj
    /\ RetZ # snapZ

RECURSIVE Repeat(_, _)
Repeat(s, n) == IF n = 0 THEN <<>> ELSE s \o Repeat(s, n - 1)

TrainOps == <<"zero_grad", "loss", "backward", "clip", "step", "accumulate">>
EvalOps == <<"loss", "accumulate">>

\* what run_epoch has done when it returns
EpochOps ==
    pc = "epoch_done" =>
        opLog = Repeat(TrainOps, Len(data[1])) \o <<"eval">>
                \o Repeat(EvalOps, Len(data[2]))

\* C10: run_epoch runs a training pass, every batch of which zeroes the
\* gradients, computes the loss, backpropagates, clips, takes one optimizer
\* step and accumulates, then an evaluation pass that computes and
\* accumulates the loss of every batch; outside training mode the parameters
\* never change.
TrainingOrder == []EpochOps /\ [][~training => params' = params]_vars

\* run_epoch has returned after two training batches
TrainingOrderWitness ==
    /\ pc = "epoch_done"
    /\ Len(data[1]) >= 2
    /\ trained
    /\ Len(bpds) = 2
====
